---- MODULE Spec2Model ----
(***************************************************************************)
(* Ideas & Projects Manager: the IndexedDB persistence layer               *)
(* (DatabaseManager), the handlers of ProjectManager that call it and the  *)
(* part of FileHandler that writes content.                                *)
(*                                                                         *)
(* One action is one turn of the browser's event loop: a user event with   *)
(* the synchronous part of its handler, or an IndexedDB event (request     *)
(* success, request error, transaction complete, transaction abort) with   *)
(* its callback and the promise continuation (microtasks) that the         *)
(* callback's resolve/reject releases, up to the next await.               *)
(*                                                                         *)
(* IndexedDB is modelled by what the code relies on: transactions are      *)
(* queued in creation order; a transaction runs once no earlier live       *)
(* transaction with an overlapping scope conflicts with it (two read-only  *)
(* transactions do not conflict); its writes are rolled back if it aborts. *)
(***************************************************************************)
EXTENDS Integers, Sequences, FiniteSets, TLC

\* ------------------------------------------------------------------ bounds
\* UI operations started in one run.
MaxOps == 2
\* Storage failures (request errors and aborted commits) injected in one run.
MaxFailures == 1
\* Times the wall clock advances in one run.
MaxTicks == 1

\* --------------------------------------------------------------- constants
\* getRecentProjectsCount(days = 7)
DefaultDays == 7

\* The wall clock at start-up, in days: late enough for a record to be older
\* than the statistics window.
StartTime == DefaultDays + 1

\* null / undefined for an id, and for a timestamp
NoId == 0
NoTime == 0 - 1

\* ------------------------------------------------------------------ values
\* Text is a sequence of characters.
Blank == <<>>
NameInputs == { Blank, <<" ">>, <<" ", "a", " ">> }
TextInputs == { Blank, <<" ">>, <<" ", "t">> }
EditInputs == { <<" ">>, <<"u">> }
FileEditInputs == { Blank, <<"g">> }

\* FileHandler.currentFileContent, and the file of a content record.
NoFile == [present |-> FALSE, content |-> Blank, isImage |-> FALSE]
TextFile == [present |-> TRUE, content |-> <<"f">>, isImage |-> FALSE]
ImageFile == [present |-> TRUE, content |-> <<"i">>, isImage |-> TRUE]
PreviewInputs == { TextFile, ImageFile }
FileInputs == { TextFile }

\* String.prototype.trim
RECURSIVE TrimLeft(_)
TrimLeft(s) == IF s = <<>> \/ Head(s) # " " THEN s ELSE TrimLeft(Tail(s))

RECURSIVE TrimRight(_)
TrimRight(s) ==
    IF s = <<>> \/ s[Len(s)] # " " THEN s ELSE TrimRight(SubSeq(s, 1, Len(s) - 1))

Trim(s) == TrimRight(TrimLeft(s))

\* ------------------------------------------------------------------- state
VARIABLES
    projectStore,        \* object store 'projects': records keyed by id
    contentStore,        \* object store 'content': records keyed by id
    counters,            \* object store 'counters': name -> value
    txs,                 \* live IndexedDB transactions, in creation order
    tasks,               \* the UI operations started so far
    projects,            \* ProjectManager.projects
    currentProject,      \* ProjectManager.currentProject (its id, NoId for null)
    currentFileContent,  \* FileHandler.currentFileContent
    originalFileContent, \* FileHandler.originalFileContent
    fileEditMode,        \* FileHandler.fileEditMode
    editingFileInContent, \* FileHandler.editingFileInContent: content id -> flag
    now,                 \* the wall clock (new Date()), in days
    failures,            \* storage failures injected so far
    issued,              \* history: the ids getNextId has returned, in order
    undone,              \* history: a getNextId was rolled back after it resolved
    start,               \* history: the counters at start-up
    overlap,             \* history: the most getNextId calls pending at once
    last                 \* history: the operation that ended last, and how

vars == << projectStore, contentStore, counters, txs, tasks, projects,
           currentProject, currentFileContent, originalFileContent,
           fileEditMode, editingFileInContent, now, failures, issued, undone,
           start, overlap, last >>

dbVars == << projectStore, contentStore, counters >>
editVars == << originalFileContent, fileEditMode, editingFileInContent >>
uiVars == << projects, currentProject, currentFileContent, editVars >>
histVars == << issued, undone, start >>
ghostVars == << issued, undone, start, overlap >>


\* ----------------------------------------------------------------- records
Project(id, name, createdAt) == [id |-> id, name |-> name, createdAt |-> createdAt]

\* A faulty variant of Content: the new record is stamped as if it were edited.
ContentStamped(id, projectId, text, file, createdAt) ==
    [id |-> id, projectId |-> projectId, text |-> text, file |-> file,
     createdAt |-> createdAt, updatedAt |-> createdAt]

Content(id, projectId, text, file, createdAt) ==
    [id |-> id, projectId |-> projectId, text |-> text, file |-> file,
     createdAt |-> createdAt, updatedAt |-> NoTime]

NoRec == [id |-> NoId]

\* A UI operation in flight: op is the handler, pc the await it is suspended at,
\* pid/cid/text/file the arguments and form values it captured, nid the id it
\* was given, obs what it has read so far.
Task(op, pc, pid, cid, text, file) ==
    [op |-> op, pc |-> pc, pid |-> pid, cid |-> cid, text |-> text, file |-> file,
     nid |-> NoId, obs |-> <<>>]

\* The slot of an operation that is over.
Idle == Task("none", "done", NoId, NoId, Blank, NoFile)

\* How an operation ended: result names the return statement (or the catch
\* block) it left by; the rest is the operation's record as it ended.
Outcome(task, result) ==
    [op |-> task.op, result |-> result, pid |-> task.pid, cid |-> task.cid,
     nid |-> task.nid, text |-> task.text, file |-> task.file, obs |-> task.obs]

NoOutcome == Outcome(Idle, "none")

\* ------------------------------------------------------------ object stores
\* A faulty variant of Put: the record is added beside the one it should replace.
PutBeside(store, rec) == store \cup { rec }

\* IDBObjectStore.put: insert or replace by key
Put(store, rec) == { r \in store : r.id # rec.id } \cup { rec }

\* A faulty variant of Delete: when the key is absent, the record with the
\* greatest key goes.
DeleteLoose(store, id) ==
    IF \E r \in store : r.id = id
    THEN { r \in store : r.id # id }
    ELSE { r \in store : \E q \in store : q.id > r.id }

\* IDBObjectStore.delete: no error if the key is absent
Delete(store, id) == { r \in store : r.id # id }

\* IDBObjectStore.get: the record, or undefined
Get(store, id) == IF \E r \in store : r.id = id
                  THEN CHOOSE r \in store : r.id = id
                  ELSE NoRec

\* index('projectId').getAll(projectId)
ByProject(store, projectId) == { c \in store : c.projectId = projectId }

\* ------------------------------------------------------------ transactions
NoUndo == [p |-> {}, c |-> {}, k |-> <<>>]

Tx(task, op, scope, mode, pc, key, rec) ==
    [task |-> task, op |-> op, scope |-> scope, mode |-> mode, pc |-> pc,
     key |-> key, rec |-> rec, val |-> 0, todo |-> {}, seen |-> {},
     began |-> FALSE, undo |-> NoUndo]

\* Two transactions conflict when their scopes overlap and one of them writes.
Conflict(a, b) ==
    /\ a.scope \cap b.scope # {}
    /\ a.mode = "readwrite" \/ b.mode = "readwrite"

\* Transaction i holds its stores: every conflicting transaction created before
\* it has finished.
CanRun(i) == \A j \in 1..(i - 1) : ~Conflict(txs[j], txs[i])

RemoveAt(s, i) == SubSeq(s, 1, i - 1) \o SubSeq(s, i + 1, Len(s))

\* What transaction tx must restore if it aborts: the stores of its scope as
\* they are when its first request runs.
Snapshot(tx) ==
    [p |-> IF "projects" \in tx.scope THEN projectStore ELSE {},
     c |-> IF "content" \in tx.scope THEN contentStore ELSE {},
     k |-> IF "counters" \in tx.scope THEN counters ELSE <<>>]

Begin(tx) == IF tx.began THEN tx ELSE [tx EXCEPT !.began = TRUE, !.undo = Snapshot(tx)]

\* The stores after transaction tx is rolled back.
RolledBack(tx) ==
    [p |-> IF tx.began /\ "projects" \in tx.scope THEN tx.undo.p ELSE projectStore,
     c |-> IF tx.began /\ "content" \in tx.scope THEN tx.undo.c ELSE contentStore,
     k |-> IF tx.began /\ "counters" \in tx.scope THEN tx.undo.k ELSE counters]


\* -------------------------------------------------------------------- Init
\* DatabaseManager.init on first run: empty stores, both counters at 1.
FreshCounters == [projectId |-> 1, contentId |-> 1]

\* A database left by earlier sessions: project 1 with a text idea and a file
\* idea, project 2 with one idea.
OldProjects == { Project(1, <<"a">>, 0), Project(2, <<"b">>, StartTime) }

OldContent == { Content(1, 1, <<"t">>, NoFile, 0),
                Content(2, 1, Blank, TextFile, 0),
                Content(3, 2, <<"t">>, NoFile, StartTime) }

OldCounters == [projectId |-> 3, contentId |-> 4]

\* getAll() returns the records in key order.
RECURSIVE InKeyOrder(_)
InKeyOrder(store) ==
    IF store = {} THEN <<>>
    ELSE LET first == CHOOSE r \in store : \A q \in store : r.id <= q.id
         IN  <<first>> \o InKeyOrder(store \ {first})

\* Map: new Map(), get (undefined reads as false), set, delete and size.
NoEntries == << >>

MapGet(map, key) == IF key \in DOMAIN map THEN map[key] ELSE FALSE

MapSet(map, key, value) ==
    [k \in DOMAIN map \cup {key} |-> IF k = key THEN value ELSE map[k]]

MapDelete(map, key) == [k \in DOMAIN map \ {key} |-> map[k]]

MapSize(map) == Cardinality(DOMAIN map)

\* clearFilePreview()
ClearFilePreview ==
    /\ currentFileContent' = NoFile
    /\ originalFileContent' = NoFile
    /\ fileEditMode' = FALSE

\* A faulty variant of Clear: the entries stay.
ClearNothing(map) == map

\* Map.prototype.clear
Clear(map) == NoEntries

\* clearEditingStates()
ClearEditingStates ==
    /\ editingFileInContent' = Clear(editingFileInContent)
    /\ fileEditMode' = FALSE

\* The state once ProjectManager.init has run (the constructor's fields, the
\* database opened, loadProjects done), on a fresh database, on an old one, or
\* on an old one after the user has opened project 1.
Init ==
    /\ \/ /\ projectStore = {}
          /\ contentStore = {}
          /\ counters = FreshCounters
          /\ currentProject = NoId
       \/ /\ projectStore = OldProjects
          /\ contentStore = OldContent
          /\ counters = OldCounters
          /\ currentProject \in { NoId, 1 }
    /\ projects = InKeyOrder(projectStore)
    /\ txs = <<>>
    /\ tasks = <<>>
    /\ currentFileContent = NoFile
    /\ originalFileContent = NoFile
    /\ fileEditMode = FALSE
    /\ editingFileInContent = NoEntries
    /\ now = StartTime
    /\ failures = 0
    /\ issued = [projectId |-> <<>>, contentId |-> <<>>]
    /\ undone = [projectId |-> FALSE, contentId |-> FALSE]
    /\ start = counters
    /\ overlap = [projectId |-> 0, contentId |-> 0]
    /\ last = NoOutcome

\* The old database as a session leaves it in which project 2 was opened and
\* an idea added to it while deleteProject(2) was waiting to run: the new idea
\* outlives its project.
LeftProjects == { Project(1, <<"a">>, 0) }

LeftContent == { Content(1, 1, <<"t">>, NoFile, 0),
                 Content(2, 1, Blank, TextFile, 0),
                 Content(4, 2, <<"t">>, NoFile, StartTime) }

LeftCounters == [projectId |-> 3, contentId |-> 5]

\* The state once ProjectManager.init has run on the old database or on the
\* database such a session left.
InitStats ==
    /\ \/ /\ projectStore = OldProjects
          /\ contentStore = OldContent
          /\ counters = OldCounters
       \/ /\ projectStore = LeftProjects
          /\ contentStore = LeftContent
          /\ counters = LeftCounters
    /\ currentProject = NoId
    /\ projects = InKeyOrder(projectStore)
    /\ txs = <<>>
    /\ tasks = <<>>
    /\ currentFileContent = NoFile
    /\ originalFileContent = NoFile
    /\ fileEditMode = FALSE
    /\ editingFileInContent = NoEntries
    /\ now = StartTime
    /\ failures = 0
    /\ issued = [projectId |-> <<>>, contentId |-> <<>>]
    /\ undone = [projectId |-> FALSE, contentId |-> FALSE]
    /\ start = counters
    /\ overlap = [projectId |-> 0, contentId |-> 0]
    /\ last = NoOutcome

\* ------------------------------------------------------------ continuations
\* A handler returns (or its catch block has run): the operation is over.
Finish(t) == [tasks EXCEPT ![t] = Idle]

CanStart == Len(tasks) < MaxOps

\* A faulty variant of NextValue: the counter is written back as it was read.
NextValueStuck(nextId) == nextId

\* A faulty variant of NextValue: a value is skipped.
NextValueSkip(nextId) == nextId + 2

\* The next counter value getNextId writes back.
NextValue(nextId) == nextId + 1

\* A faulty variant of CounterValue: the stored row is not looked at.
CounterValueAnew(name) == 1

\* getRequest.result || { name: counterName, value: 1 }
CounterValue(name) == IF name \in DOMAIN counters THEN counters[name] ELSE 1

\* db.transaction(['counters'], 'readwrite') and store.get(counterName)
GetNextIdTx(t, name) == Tx(t, "getNextId", {"counters"}, "readwrite", "get", name, NoRec)

\* db.transaction(['projects'], 'readwrite') and store.put(project)
SaveProjectTx(t, project) ==
    Tx(t, "saveProject", {"projects"}, "readwrite", "put", project.id, project)

\* db.transaction(['content'], 'readwrite') and store.put(content)
SaveContentTx(t, content) ==
    Tx(t, "saveContent", {"content"}, "readwrite", "put", content.id, content)

\* The getNextId(name) calls not yet resolved or rejected, among transactions q.
Pending(q, name) ==
    Cardinality({ i \in 1..Len(q) : /\ q[i].op = "getNextId" /\ q[i].key = name
                                    /\ q[i].pc \in { "get", "put" } })

Max(a, b) == IF a >= b THEN a ELSE b

Overlap(q, name) == [overlap EXCEPT ![name] = Max(@, Pending(q, name))]

\* A faulty variant of IsEmptyName: the name is tested without trim().
IsEmptyUntrimmed(name) == name = Blank

\* if (!projectName) return;
IsEmptyName(name) == Trim(name) = Blank

\* A faulty variant of IsEmptyContent: the selected file is not looked at.
IsEmptyText(text, file) == Trim(text) = Blank

\* if (!contentText && !fileContent) return;
IsEmptyContent(text, file) == Trim(text) = Blank /\ ~file.present

\* An operation started and suspended at its first await.
Started(task) == tasks' = Append(tasks, task) /\ last' = last

\* An operation that returned before any await.
Returned(task, result) == tasks' = Append(tasks, Idle) /\ last' = Outcome(task, result)

\* Operation t returns from its last await (or its catch block has run).
Done(t, task, result) == tasks' = Finish(t) /\ last' = Outcome(task, result)

\* --------------------------------------------------------- createProject
\* The form is submitted: the handler runs up to await getNextId.
CreateProject(name) ==
    /\ CanStart
    /\ IF IsEmptyName(name)
       THEN /\ Returned(Task("createProject", "done", NoId, NoId, name, NoFile), "empty")
            /\ txs' = txs
       ELSE /\ Started(Task("createProject", "awaitId", NoId, NoId, name, NoFile))
            /\ txs' = Append(txs, GetNextIdTx(Len(tasks) + 1, "projectId"))
    /\ overlap' = Overlap(txs', "projectId")
    /\ UNCHANGED << dbVars, uiVars, now, failures, histVars >>

\* ------------------------------------------------------------- addContent
\* The content form is submitted: the handler runs up to await getNextId.
AddContent(text) ==
    /\ CanStart
    /\ LET fileContent == currentFileContent IN
       IF currentProject = NoId
       THEN /\ Returned(Task("addContent", "done", NoId, NoId, text, fileContent), "noProject")
            /\ txs' = txs
       ELSE IF IsEmptyContent(text, fileContent)
       THEN /\ Returned(Task("addContent", "done", currentProject, NoId, text, fileContent), "empty")
            /\ txs' = txs
       ELSE /\ Started(Task("addContent", "awaitId", currentProject, NoId, text, fileContent))
            /\ txs' = Append(txs, GetNextIdTx(Len(tasks) + 1, "contentId"))
    /\ overlap' = Overlap(txs', "contentId")
    /\ UNCHANGED << dbVars, uiVars, now, failures, histVars >>

\* -------------------------------------------------------------- getNextId
\* getRequest.onsuccess: read the counter and ask for the incremented put.
GetCounterSuccess(i) ==
    /\ i \in 1..Len(txs)
    /\ txs[i].op = "getNextId" /\ txs[i].pc = "get"
    /\ CanRun(i)
    /\ txs' = [txs EXCEPT ![i] =
                 [Begin(txs[i]) EXCEPT !.val = CounterValue(txs[i].key), !.pc = "put"]]
    /\ UNCHANGED << dbVars, tasks, uiVars, now, failures, ghostVars, last >>

\* putRequest.onsuccess: resolve(nextId); the caller goes on to build its record
\* and to save it.
PutCounterSuccess(i) ==
    /\ i \in 1..Len(txs)
    /\ txs[i].op = "getNextId" /\ txs[i].pc = "put"
    /\ LET tx == txs[i]
           t == tx.task
           nextId == tx.val
           held == [txs EXCEPT ![i].pc = "commit"]
           task == [tasks[t] EXCEPT !.nid = nextId, !.pc = "awaitSave"]
       IN  /\ counters' = [counters EXCEPT ![tx.key] = NextValue(nextId)]
           /\ issued' = [issued EXCEPT ![tx.key] = Append(@, nextId)]
           /\ IF task.op = "createProject"
              THEN /\ tasks' = [tasks EXCEPT ![t] = task]
                   /\ last' = last
                   /\ txs' = Append(held, SaveProjectTx(t,
                                Project(nextId, Trim(task.text), now)))
              ELSE IF currentProject = NoId
              THEN \* this.currentProject.id throws; the catch block reports it
                   /\ Done(t, task, "failed")
                   /\ txs' = held
              ELSE /\ tasks' = [tasks EXCEPT ![t] = task]
                   /\ last' = last
                   /\ txs' = Append(held, SaveContentTx(t,
                                Content(nextId, currentProject, Trim(task.text),
                                        task.file, now)))
    /\ UNCHANGED << projectStore, contentStore, uiVars, now, failures, undone,
                    start, overlap >>

\* ----------------------------------------------------- saveProject, saveContent
\* request.onsuccess of saveProject called by createProject: resolve(project);
\* the project is pushed on the in-memory list.  The refresh that follows
\* (updateDisplay) only reads and is part of this step.
CreateProjectSaved(i) ==
    /\ i \in 1..Len(txs)
    /\ txs[i].op = "saveProject" /\ txs[i].pc = "put"
    /\ tasks[txs[i].task].op = "createProject"
    /\ CanRun(i)
    /\ projectStore' = Put(projectStore, txs[i].rec)
    /\ txs' = [txs EXCEPT ![i] = [Begin(txs[i]) EXCEPT !.pc = "commit"]]
    /\ projects' = Append(projects, txs[i].rec)
    /\ Done(txs[i].task, tasks[txs[i].task], "ok")
    /\ UNCHANGED << contentStore, counters, currentProject, currentFileContent, editVars,
                    now, failures, ghostVars >>

\* request.onsuccess of saveContent called by addContent: resolve(content); the
\* view is refreshed and the form cleared (clearFilePreview).  The refreshes
\* (updateProjectDetail, updateStatistics) only read and are part of this step.
AddContentSaved(i) ==
    /\ i \in 1..Len(txs)
    /\ txs[i].op = "saveContent" /\ txs[i].pc = "put"
    /\ tasks[txs[i].task].op = "addContent"
    /\ CanRun(i)
    /\ contentStore' = Put(contentStore, txs[i].rec)
    /\ txs' = [txs EXCEPT ![i] = [Begin(txs[i]) EXCEPT !.pc = "commit"]]
    /\ ClearFilePreview
    /\ Done(txs[i].task, tasks[txs[i].task], "ok")
    /\ UNCHANGED << projectStore, counters, projects, currentProject,
                    editingFileInContent, now, failures, ghostVars >>

\* ---------------------------------------------------- openProject, editProject
\* db.transaction(['projects'], 'readonly') and store.get(id)
GetProjectTx(t, id) == Tx(t, "getProject", {"projects"}, "readonly", "get", id, NoRec)

\* The ids of the project cards on the page (rendered from this.projects).
CardIds == { projects[k].id : k \in 1..Len(projects) }

\* A project card is clicked: await this.db.getProject(projectId).
OpenProject(projectId) ==
    /\ CanStart
    /\ projectId \in CardIds
    /\ Started(Task("openProject", "awaitGet", projectId, NoId, Blank, NoFile))
    /\ txs' = Append(txs, GetProjectTx(Len(tasks) + 1, projectId))
    /\ UNCHANGED << dbVars, uiVars, now, failures, ghostVars >>

\* getProject resolves for openProject: if (!project) return; otherwise the
\* project becomes the current one and the detail view is shown.
OpenProjectGot(i) ==
    /\ i \in 1..Len(txs)
    /\ txs[i].op = "getProject" /\ tasks[txs[i].task].op = "openProject"
    /\ CanRun(i)
    /\ LET t == txs[i].task
           project == Get(projectStore, txs[i].key)
       IN  IF project = NoRec
           THEN /\ Done(t, tasks[t], "notFound")
                /\ currentProject' = currentProject
           ELSE /\ Done(t, tasks[t], "ok")
                /\ currentProject' = project.id
    /\ txs' = RemoveAt(txs, i)
    /\ UNCHANGED << dbVars, projects, currentFileContent, editVars, now, failures, ghostVars >>

\* The Edit button of a project card: await this.db.getProject(projectId).
EditProject(projectId) ==
    /\ CanStart
    /\ projectId \in CardIds
    /\ Started(Task("editProject", "awaitGet", projectId, NoId, Blank, NoFile))
    /\ txs' = Append(txs, GetProjectTx(Len(tasks) + 1, projectId))
    /\ UNCHANGED << dbVars, uiVars, now, failures, ghostVars >>

\* A faulty variant of IsNewName: the answer is tested without trim().
IsUntrimmedName(newName) == newName # Blank

\* if (newName && newName.trim())
IsNewName(newName) == Trim(newName) # Blank

\* A faulty variant of Renamed: the record is built anew and stamped again.
RenamedAnew(project, newName) == Project(project.id, Trim(newName), now)

\* project.name = newName.trim();
Renamed(project, newName) == [project EXCEPT !.name = Trim(newName)]

\* getProject resolves for editProject: if (!project) return; prompt() gives
\* newName; a usable name is trimmed into the record, which is saved.
EditProjectGot(i, newName) ==
    /\ i \in 1..Len(txs)
    /\ txs[i].op = "getProject" /\ tasks[txs[i].task].op = "editProject"
    /\ CanRun(i)
    /\ LET t == txs[i].task
           project == Get(projectStore, txs[i].key)
           rest == RemoveAt(txs, i)
           task == [tasks[t] EXCEPT !.text = newName, !.pc = "awaitSave"]
       IN  IF project = NoRec
           THEN Done(t, tasks[t], "notFound") /\ txs' = rest
           ELSE IF ~IsNewName(newName)
           THEN Done(t, task, "declined") /\ txs' = rest
           ELSE /\ tasks' = [tasks EXCEPT ![t] = task]
                /\ last' = last
                /\ txs' = Append(rest, SaveProjectTx(t, Renamed(project, newName)))
    /\ UNCHANGED << dbVars, uiVars, now, failures, ghostVars >>

\* const localProject = this.projects.find(p => p.id === projectId);
\* if (localProject) localProject.name = project.name;
RenameLocal(list, id, name) ==
    IF \E k \in 1..Len(list) : list[k].id = id
    THEN LET first == CHOOSE k \in 1..Len(list) :
                        /\ list[k].id = id
                        /\ \A j \in 1..(k - 1) : list[j].id # id
         IN  [list EXCEPT ![first].name = name]
    ELSE list

\* request.onsuccess of saveProject called by editProject.
EditProjectSaved(i) ==
    /\ i \in 1..Len(txs)
    /\ txs[i].op = "saveProject" /\ txs[i].pc = "put"
    /\ tasks[txs[i].task].op = "editProject"
    /\ CanRun(i)
    /\ projectStore' = Put(projectStore, txs[i].rec)
    /\ txs' = [txs EXCEPT ![i] = [Begin(txs[i]) EXCEPT !.pc = "commit"]]
    /\ projects' = RenameLocal(projects, txs[i].key, txs[i].rec.name)
    /\ Done(txs[i].task, tasks[txs[i].task], "ok")
    /\ UNCHANGED << contentStore, counters, currentProject, currentFileContent, editVars,
                    now, failures, ghostVars >>

\* ------------------------------------------------------------ showMainView
\* The back button or Escape in the detail view: currentProject = null,
\* clearFilePreview(), clearEditingStates().
ShowMainView ==
    /\ currentProject # NoId
    /\ currentProject' = NoId
    /\ ClearFilePreview
    /\ ClearEditingStates
    /\ UNCHANGED << dbVars, txs, tasks, projects, now, failures, ghostVars, last >>

\* handleFileSelect: the FileReader has loaded the chosen file (reader.onload).
HandleFileSelect(file) ==
    /\ << currentFileContent, originalFileContent, fileEditMode >> # << file, file, FALSE >>
    /\ currentFileContent' = file
    /\ originalFileContent' = file
    /\ fileEditMode' = FALSE
    /\ UNCHANGED << dbVars, txs, tasks, projects, currentProject,
                    editingFileInContent, now, failures, ghostVars, last >>

\* handleFileSelect with no file chosen, or reader.onerror: clearFilePreview().
HandleNoFile ==
    /\ ClearFilePreview
    /\ UNCHANGED << dbVars, txs, tasks, projects, currentProject,
                    editingFileInContent, now, failures, ghostVars, last >>

\* A faulty variant of Editable: any preview can be edited, even none.
EditableAny(file) == TRUE

\* if (!this.currentFileContent || this.currentFileContent.isImage) return;
Editable(file) == file.present /\ ~file.isImage

\* toggleFileEdit()
ToggleFileEdit ==
    /\ Editable(currentFileContent)
    /\ fileEditMode' = ~fileEditMode
    /\ UNCHANGED << dbVars, txs, tasks, projects, currentProject, currentFileContent,
                    originalFileContent, editingFileInContent, now, failures,
                    ghostVars, last >>

\* saveFileEdit(): the editor (rendered by renderFileContent in edit mode
\* only) holds newContent; if (!editor || !this.currentFileContent) return.
SaveFileEdit(newContent) ==
    /\ fileEditMode /\ currentFileContent.present
    /\ currentFileContent' = [currentFileContent EXCEPT !.content = newContent]
    /\ fileEditMode' = FALSE
    /\ UNCHANGED << dbVars, txs, tasks, projects, currentProject,
                    originalFileContent, editingFileInContent, now, failures,
                    ghostVars, last >>

\* resetFileContent(): if (!this.originalFileContent) return; the content of
\* the original replaces the current one.
ResetFileContent ==
    /\ originalFileContent.present /\ currentFileContent.present
    /\ currentFileContent' =
          [currentFileContent EXCEPT !.content = originalFileContent.content]
    /\ UNCHANGED << dbVars, txs, tasks, projects, currentProject, editVars, now,
                    failures, ghostVars, last >>

\* cancelFileEdit()
CancelFileEdit ==
    /\ fileEditMode' = FALSE
    /\ UNCHANGED << dbVars, txs, tasks, projects, currentProject, currentFileContent,
                    originalFileContent, editingFileInContent, now, failures,
                    ghostVars, last >>

\* The ids of the content items on the page that show an Edit File button
\* (rendered for items with a file that is not an image).
FileItemIds ==
    { c.id : c \in { d \in ByProject(contentStore, currentProject) : Editable(d.file) } }

\* toggleContentFileEdit(contentId): the flag of the item is inverted; the
\* getProjectContent that follows only renders the editor or the preview.
ToggleContentFileEdit(contentId) ==
    /\ contentId \in FileItemIds
    /\ editingFileInContent' =
          MapSet(editingFileInContent, contentId, ~MapGet(editingFileInContent, contentId))
    /\ UNCHANGED << dbVars, txs, tasks, projects, currentProject, currentFileContent,
                    originalFileContent, fileEditMode, now, failures, ghostVars, last >>

\* cancelContentFileEdit(contentId): the flag is set to false; the
\* getProjectContent that follows only renders the preview.
CancelContentFileEdit(contentId) ==
    /\ contentId \in FileItemIds
    /\ editingFileInContent' = MapSet(editingFileInContent, contentId, FALSE)
    /\ UNCHANGED << dbVars, txs, tasks, projects, currentProject, currentFileContent,
                    originalFileContent, fileEditMode, now, failures, ghostVars, last >>

\* -------------------------------------------------------------- beforeunload
\* What the page holds when beforeunload fires: the entries of
\* editingFileInContent, those of them that are true, and fileEditMode.
Held == << MapSize(editingFileInContent),
           Cardinality({ k \in DOMAIN editingFileInContent : editingFileInContent[k] }),
           IF fileEditMode THEN 1 ELSE 0 >>

\* beforeunload fires: the listeners run in the order setupGlobalEventListeners
\* added them.  cleanupApp comes first (clearFilePreview, clearEditingStates,
\* currentProject = null); the second listener then warns if fileEditMode is
\* set or editingFileInContent.size > 0.
Beforeunload ==
    /\ currentProject' = NoId
    /\ ClearFilePreview
    /\ ClearEditingStates
    /\ last' = Outcome([Task("beforeunload", "done", NoId, NoId, Blank, NoFile)
                           EXCEPT !.obs = Held],
                       IF fileEditMode' \/ MapSize(editingFileInContent') > 0
                       THEN "warn" ELSE "quiet")
    /\ UNCHANGED << dbVars, txs, tasks, projects, now, failures, ghostVars >>

\* ----------------------------------------------------------- deleteProject
\* A faulty variant of DeleteProjectScope: the content store is left out.
ProjectsOnly == { "projects" }

\* db.transaction(['projects', 'content'], 'readwrite')
DeleteProjectScope == { "projects", "content" }

DeleteProjectTx(t, id) ==
    Tx(t, "deleteProject", DeleteProjectScope, "readwrite", "delProject", id, NoRec)

\* Faulty variants of CascadeKeys: no key is returned; every key is returned.
CascadeNone(store, id) == {}

CascadeAll(store, id) == { c.id : c \in store }

\* contentStore.index('projectId').getAllKeys(id)
CascadeKeys(store, id) == { c.id : c \in ByProject(store, id) }

\* The Delete button of a project card: leave the detail view if it shows that
\* project, then await this.db.deleteProject(projectId).
DeleteProject(projectId) ==
    /\ CanStart
    /\ projectId \in CardIds
    /\ Started(Task("deleteProject", "awaitDelete", projectId, NoId, Blank, NoFile))
    /\ txs' = Append(txs, DeleteProjectTx(Len(tasks) + 1, projectId))
    /\ IF currentProject = projectId
       THEN currentProject' = NoId /\ ClearFilePreview /\ ClearEditingStates
       ELSE UNCHANGED << currentProject, currentFileContent, editVars >>
    /\ UNCHANGED << dbVars, projects, now, failures, ghostVars >>

\* projectStore.delete(id) succeeds (no handler).
DeleteProjectRecord(i) ==
    /\ i \in 1..Len(txs)
    /\ txs[i].op = "deleteProject" /\ txs[i].pc = "delProject"
    /\ CanRun(i)
    /\ projectStore' = Delete(projectStore, txs[i].key)
    /\ txs' = [txs EXCEPT ![i] = [Begin(txs[i]) EXCEPT !.pc = "keys"]]
    /\ UNCHANGED << contentStore, counters, tasks, uiVars, now, failures, ghostVars, last >>

\* contentRequest.onsuccess: a delete is requested for every key of the index.
DeleteProjectKeys(i) ==
    /\ i \in 1..Len(txs)
    /\ txs[i].op = "deleteProject" /\ txs[i].pc = "keys"
    /\ LET contentIds == CascadeKeys(contentStore, txs[i].key) IN
       txs' = [txs EXCEPT ![i].todo = contentIds,
                          ![i].pc = IF contentIds = {} THEN "commit" ELSE "delContent"]
    /\ UNCHANGED << dbVars, tasks, uiVars, now, failures, ghostVars, last >>

\* contentStore.delete(contentId) succeeds, in the order requested.
DeleteProjectContent(i) ==
    /\ i \in 1..Len(txs)
    /\ txs[i].op = "deleteProject" /\ txs[i].pc = "delContent"
    /\ LET contentId == CHOOSE c \in txs[i].todo : \A d \in txs[i].todo : c <= d
           left == txs[i].todo \ {contentId}
       IN  /\ contentStore' = Delete(contentStore, contentId)
           /\ txs' = [txs EXCEPT ![i].todo = left,
                                 ![i].pc = IF left = {} THEN "commit" ELSE "delContent"]
    /\ UNCHANGED << projectStore, counters, tasks, uiVars, now, failures, ghostVars, last >>

\* const projectIndex = this.projects.findIndex(p => p.id === projectId);
\* if (projectIndex > -1) this.projects.splice(projectIndex, 1);
RemoveLocal(list, id) ==
    IF \E k \in 1..Len(list) : list[k].id = id
    THEN RemoveAt(list, CHOOSE k \in 1..Len(list) :
                          /\ list[k].id = id
                          /\ \A j \in 1..(k - 1) : list[j].id # id)
    ELSE list

\* transaction.oncomplete: resolve(true); the project leaves the in-memory list.
DeleteProjectComplete(i) ==
    /\ i \in 1..Len(txs)
    /\ txs[i].op = "deleteProject" /\ txs[i].pc = "commit"
    /\ txs' = RemoveAt(txs, i)
    /\ projects' = RemoveLocal(projects, txs[i].key)
    /\ Done(txs[i].task, tasks[txs[i].task], "ok")
    /\ UNCHANGED << dbVars, currentProject, currentFileContent, editVars, now, failures, ghostVars >>


\* ----------------------------------- saveContentEdit, saveContentFileEdit
\* db.transaction(['content'], 'readonly') and index('projectId').getAll(projectId)
GetProjectContentTx(t, projectId) ==
    Tx(t, "getProjectContent", {"content"}, "readonly", "get", projectId, NoRec)

\* The ids of the content items on the page (rendered for the open project).
ItemIds == { c.id : c \in ByProject(contentStore, currentProject) }

\* A faulty variant of Find: the first record is taken whatever its id.
FindFirst(projectContent, contentId) ==
    IF projectContent = {} THEN NoRec
    ELSE CHOOSE c \in projectContent : \A d \in projectContent : c.id <= d.id

\* projectContent.find(c => c.id === contentId)
Find(projectContent, contentId) == Get(projectContent, contentId)

\* The Save button of a content item in the detail view: await
\* this.db.getProjectContent(this.currentProject.id).
SaveContentEdit(contentId) ==
    /\ CanStart
    /\ contentId \in ItemIds
    /\ Started(Task("saveContentEdit", "awaitGet", currentProject, contentId, Blank, NoFile))
    /\ txs' = Append(txs, GetProjectContentTx(Len(tasks) + 1, currentProject))
    /\ UNCHANGED << dbVars, uiVars, now, failures, ghostVars >>

\* A faulty variant of IsEmptyEdit: the edit is never refused.
NeverEmptyEdit(newText, content) == FALSE

\* if (!newText && !content.file) { alert(...); return; }
IsEmptyEdit(newText, content) == Trim(newText) = Blank /\ ~content.file.present

\* A faulty variant of Edited: the record is built anew and stamped again.
EditedAnew(content, newText) ==
    [Content(content.id, content.projectId, Trim(newText), content.file, now)
        EXCEPT !.updatedAt = now]

\* content.text = newText; content.updatedAt = new Date().toISOString();
Edited(content, newText) == [content EXCEPT !.text = Trim(newText), !.updatedAt = now]

\* getProjectContent resolves for saveContentEdit: the textarea's text, trimmed,
\* replaces the record's text, updatedAt is stamped and the record is saved.
SaveContentEditGot(i, newText) ==
    /\ i \in 1..Len(txs)
    /\ txs[i].op = "getProjectContent" /\ tasks[txs[i].task].op = "saveContentEdit"
    /\ CanRun(i)
    /\ LET t == txs[i].task
           content == Find(ByProject(contentStore, txs[i].key), tasks[t].cid)
           rest == RemoveAt(txs, i)
           task == [tasks[t] EXCEPT !.text = newText, !.pc = "awaitSave"]
       IN  IF content = NoRec
           THEN Done(t, tasks[t], "notFound") /\ txs' = rest
           ELSE IF IsEmptyEdit(newText, content)
           THEN Done(t, task, "alert") /\ txs' = rest
           ELSE /\ tasks' = [tasks EXCEPT ![t] = task]
                /\ last' = last
                /\ txs' = Append(rest, SaveContentTx(t, Edited(content, newText)))
    /\ UNCHANGED << dbVars, uiVars, now, failures, ghostVars >>

\* The Save File button of a content item's file editor (the item is on the
\* page, so a project is open): await getProjectContent(currentProject.id).
SaveContentFileEdit(contentId) ==
    /\ CanStart
    /\ contentId \in ItemIds
    /\ Started(Task("saveContentFileEdit", "awaitGet", currentProject, contentId, Blank, NoFile))
    /\ txs' = Append(txs, GetProjectContentTx(Len(tasks) + 1, currentProject))
    /\ UNCHANGED << dbVars, uiVars, now, failures, ghostVars >>

\* getProjectContent resolves for saveContentFileEdit: if (!content ||
\* !content.file) return; the editor's text replaces the file's content.
SaveContentFileEditGot(i, newFileContent) ==
    /\ i \in 1..Len(txs)
    /\ txs[i].op = "getProjectContent" /\ tasks[txs[i].task].op = "saveContentFileEdit"
    /\ CanRun(i)
    /\ LET t == txs[i].task
           content == Find(ByProject(contentStore, txs[i].key), tasks[t].cid)
           rest == RemoveAt(txs, i)
           task == [tasks[t] EXCEPT !.text = newFileContent, !.pc = "awaitSave"]
       IN  IF content = NoRec \/ ~content.file.present
           THEN Done(t, tasks[t], "notFound") /\ txs' = rest
           ELSE /\ tasks' = [tasks EXCEPT ![t] = task]
                /\ last' = last
                /\ txs' = Append(rest, SaveContentTx(t,
                             [content EXCEPT !.file.content = newFileContent,
                                             !.updatedAt = now]))
    /\ UNCHANGED << dbVars, uiVars, now, failures, ghostVars >>

\* request.onsuccess of saveContent called by saveContentEdit or
\* saveContentFileEdit: resolve(content); the view is refreshed.
ContentEditSaved(i) ==
    /\ i \in 1..Len(txs)
    /\ txs[i].op = "saveContent" /\ txs[i].pc = "put"
    /\ tasks[txs[i].task].op \in { "saveContentEdit", "saveContentFileEdit" }
    /\ CanRun(i)
    /\ contentStore' = Put(contentStore, txs[i].rec)
    /\ txs' = [txs EXCEPT ![i] = [Begin(txs[i]) EXCEPT !.pc = "commit"]]
    /\ Done(txs[i].task, tasks[txs[i].task], "ok")
    /\ editingFileInContent' =
          IF tasks[txs[i].task].op = "saveContentEdit"
          THEN MapDelete(editingFileInContent, tasks[txs[i].task].cid)
          ELSE MapSet(editingFileInContent, tasks[txs[i].task].cid, FALSE)
    /\ UNCHANGED << projectStore, counters, projects, currentProject,
                    currentFileContent, originalFileContent, fileEditMode,
                    now, failures, ghostVars >>

\* ----------------------------------------------------------- deleteContent
\* db.transaction(['content'], 'readwrite') and store.delete(id)
DeleteContentTx(t, id) ==
    Tx(t, "deleteContent", {"content"}, "readwrite", "delete", id, NoRec)

\* The Delete button of a content item in the detail view: await
\* this.db.deleteContent(contentId).
DeleteContent(contentId) ==
    /\ CanStart
    /\ contentId \in ItemIds
    /\ Started(Task("deleteContent", "awaitDelete", currentProject, contentId, Blank, NoFile))
    /\ txs' = Append(txs, DeleteContentTx(Len(tasks) + 1, contentId))
    /\ UNCHANGED << dbVars, uiVars, now, failures, ghostVars >>

\* request.onsuccess of deleteContent: resolve(true).
DeleteContentDone(i) ==
    /\ i \in 1..Len(txs)
    /\ txs[i].op = "deleteContent" /\ txs[i].pc = "delete"
    /\ CanRun(i)
    /\ contentStore' = Delete(contentStore, txs[i].key)
    /\ txs' = [txs EXCEPT ![i] = [Begin(txs[i]) EXCEPT !.pc = "commit"]]
    /\ Done(txs[i].task, tasks[txs[i].task], "ok")
    /\ editingFileInContent' = MapDelete(editingFileInContent, txs[i].key)
    /\ UNCHANGED << projectStore, counters, projects, currentProject,
                    currentFileContent, originalFileContent, fileEditMode,
                    now, failures, ghostVars >>

\* -------------------------------------------------------- updateStatistics
\* db.transaction(['content'], 'readonly') and store.count()
CountTx(t) == Tx(t, "getTotalIdeasCount", {"content"}, "readonly", "count", NoId, NoRec)

\* db.transaction(['projects', 'content'], 'readonly')
RecentScope == { "projects", "content" }

\* weekAgo.setDate(weekAgo.getDate() - days)
WeekAgo(days) == now - days

RecentTx(t, days) ==
    [Tx(t, "getRecentProjectsCount", RecentScope, "readonly", "projects", NoId, NoRec)
       EXCEPT !.val = WeekAgo(days)]

\* record.createdAt > weekAgoISO
IsRecent(rec, weekAgo) == rec.createdAt > weekAgo

\* The statistics are refreshed (after a write, by updateDisplay or by the
\* handler itself): await this.db.getTotalIdeasCount().
UpdateStatistics ==
    /\ CanStart
    /\ Started(Task("updateStatistics", "awaitCount", NoId, NoId, Blank, NoFile))
    /\ txs' = Append(txs, CountTx(Len(tasks) + 1))
    /\ UNCHANGED << dbVars, uiVars, now, failures, ghostVars >>

\* A faulty variant of Count: the projects that own a record are counted.
CountOwners(store) == Cardinality({ c.projectId : c \in store })

\* store.count()
Count(store) == Cardinality(store)

\* store.count() succeeds; await this.db.getRecentProjectsCount().
CountDone(i) ==
    /\ i \in 1..Len(txs)
    /\ txs[i].op = "getTotalIdeasCount"
    /\ CanRun(i)
    /\ LET t == txs[i].task IN
       /\ tasks' = [tasks EXCEPT ![t].pc = "awaitRecent",
                                 ![t].obs = Append(@, Count(contentStore))]
       /\ txs' = Append(RemoveAt(txs, i), RecentTx(t, DefaultDays))
    /\ UNCHANGED << dbVars, uiVars, now, failures, ghostVars, last >>

\* projectsRequest.onsuccess: the recently created projects are collected and
\* contentStore.getAll() is requested.
RecentProjectsRead(i) ==
    /\ i \in 1..Len(txs)
    /\ txs[i].op = "getRecentProjectsCount" /\ txs[i].pc = "projects"
    /\ CanRun(i)
    /\ txs' = [txs EXCEPT ![i].pc = "content",
                          ![i].seen = { p.id : p \in { q \in projectStore : IsRecent(q, txs[i].val) } }]
    /\ UNCHANGED << dbVars, tasks, uiVars, now, failures, ghostVars, last >>

\* contentRequest.onsuccess: the projects of recently created content are
\* added; resolve(recentProjectIds.size).
RecentContentRead(i) ==
    /\ i \in 1..Len(txs)
    /\ txs[i].op = "getRecentProjectsCount" /\ txs[i].pc = "content"
    /\ CanRun(i)
    /\ LET t == txs[i].task
           recentProjectIds == txs[i].seen \cup
               { c.projectId : c \in { d \in contentStore : IsRecent(d, txs[i].val) } }
       IN  Done(t, [tasks[t] EXCEPT !.obs = Append(@, Cardinality(recentProjectIds))], "ok")
    /\ txs' = RemoveAt(txs, i)
    /\ UNCHANGED << dbVars, uiVars, now, failures, ghostVars >>

\* ------------------------------------------------- transaction end, failure
\* A read-write transaction whose requests are done commits (complete event).
\* Its caller was resolved when its request succeeded.
TxComplete(i) ==
    /\ i \in 1..Len(txs)
    /\ txs[i].pc = "commit" /\ txs[i].op # "deleteProject"
    /\ txs' = RemoveAt(txs, i)
    /\ UNCHANGED << dbVars, tasks, uiVars, now, failures, ghostVars, last >>

\* The commit fails (quota, I/O): the transaction's writes are rolled back and
\* an abort event is fired at the transaction.  No request fails, so no
\* request.onerror and no transaction.onerror runs; no method of
\* DatabaseManager sets onabort.
TxAbort(i) ==
    /\ i \in 1..Len(txs)
    /\ txs[i].pc = "commit"
    /\ failures < MaxFailures
    /\ failures' = failures + 1
    /\ projectStore' = RolledBack(txs[i]).p
    /\ contentStore' = RolledBack(txs[i]).c
    /\ counters' = RolledBack(txs[i]).k
    /\ txs' = RemoveAt(txs, i)
    /\ undone' = IF txs[i].op = "getNextId"
                 THEN [undone EXCEPT ![txs[i].key] = TRUE]
                 ELSE undone
    /\ UNCHANGED << tasks, uiVars, now, issued, start, overlap, last >>

\* A faulty variant of RequestError: the rejection does not reach the caller.
RequestErrorUnheard(i) ==
    /\ i \in 1..Len(txs)
    /\ txs[i].pc # "commit"
    /\ CanRun(i)
    /\ failures < MaxFailures
    /\ failures' = failures + 1
    /\ projectStore' = RolledBack(txs[i]).p
    /\ contentStore' = RolledBack(txs[i]).c
    /\ counters' = RolledBack(txs[i]).k
    /\ txs' = RemoveAt(txs, i)
    /\ UNCHANGED << tasks, last, uiVars, now, ghostVars >>

\* A request of a running transaction fails: request.onerror rejects the
\* caller's promise (for deleteProject the error event reaches
\* transaction.onerror, which rejects it); the caller's catch block reports the
\* failure; the transaction aborts and its writes are rolled back.
RequestError(i) ==
    /\ i \in 1..Len(txs)
    /\ txs[i].pc # "commit"
    /\ CanRun(i)
    /\ failures < MaxFailures
    /\ failures' = failures + 1
    /\ projectStore' = RolledBack(txs[i]).p
    /\ contentStore' = RolledBack(txs[i]).c
    /\ counters' = RolledBack(txs[i]).k
    /\ txs' = RemoveAt(txs, i)
    /\ Done(txs[i].task, tasks[txs[i].task], "failed")
    /\ UNCHANGED << uiVars, now, ghostVars >>

\* The stores of the database when the page goes away: a transaction whose
\* requests are all done (kept) commits, every other running transaction is
\* aborted and its writes are rolled back.
Unloaded(kept) ==
    LET lost == { i \in 1..Len(txs) : txs[i].began /\ i \notin kept }
        Writer(name) == { i \in lost : name \in txs[i].scope /\ txs[i].mode = "readwrite" }
        Undo(name) == txs[CHOOSE i \in Writer(name) : TRUE].undo
    IN  [p |-> IF Writer("projects") # {} THEN Undo("projects").p ELSE projectStore,
         c |-> IF Writer("content") # {} THEN Undo("content").c ELSE contentStore,
         k |-> IF Writer("counters") # {} THEN Undo("counters").k ELSE counters,
         lost |-> lost]

\* The page is reloaded: every operation in flight is gone with the page, the
\* transactions end as the browser ends them, and ProjectManager.init runs
\* again: indexedDB.open finds the database at its version, so
\* onupgradeneeded does not run and no store is created or reset;
\* loadProjects reads the project list; no project is open.
Restart ==
    /\ \E kept \in SUBSET { i \in 1..Len(txs) : txs[i].pc = "commit" } :
          LET left == Unloaded(kept) IN
          /\ projectStore' = left.p
          /\ contentStore' = left.c
          /\ counters' = left.k
          /\ projects' = InKeyOrder(left.p)
          /\ undone' = [name \in DOMAIN undone |->
                          \/ undone[name]
                          \/ \E i \in left.lost : /\ txs[i].op = "getNextId"
                                                  /\ txs[i].key = name
                                                  /\ txs[i].pc = "commit"]
    /\ txs' = <<>>
    /\ tasks' = [t \in 1..Len(tasks) |-> Idle]
    /\ currentProject' = NoId
    /\ ClearFilePreview
    /\ ClearEditingStates
    /\ last' = Outcome(Task("init", "done", NoId, NoId, Blank, NoFile), "ok")
    /\ UNCHANGED << now, failures, issued, start, overlap >>

\* Time passes.
Tick ==
    /\ now < StartTime + MaxTicks
    /\ now' = now + 1
    /\ UNCHANGED << dbVars, txs, tasks, uiVars, failures, ghostVars, last >>

\* ------------------------------------------------------------ specification
Next ==
    \/ \E name \in NameInputs : CreateProject(name)
    \/ \E text \in TextInputs : AddContent(text)
    \/ \E id \in CardIds : OpenProject(id)
    \/ \E id \in CardIds : EditProject(id)
    \/ \E id \in CardIds : DeleteProject(id)
    \/ \E id \in ItemIds : SaveContentEdit(id)
    \/ \E id \in ItemIds : SaveContentFileEdit(id)
    \/ \E id \in ItemIds : DeleteContent(id)
    \/ UpdateStatistics
    \/ ShowMainView
    \/ \E file \in FileInputs : HandleFileSelect(file)
    \/ \E i \in 1..Len(txs) : GetCounterSuccess(i)
    \/ \E i \in 1..Len(txs) : PutCounterSuccess(i)
    \/ \E i \in 1..Len(txs) : CreateProjectSaved(i)
    \/ \E i \in 1..Len(txs) : AddContentSaved(i)
    \/ \E i \in 1..Len(txs) : OpenProjectGot(i)
    \/ \E i \in 1..Len(txs) : \E newName \in NameInputs : EditProjectGot(i, newName)
    \/ \E i \in 1..Len(txs) : EditProjectSaved(i)
    \/ \E i \in 1..Len(txs) : DeleteProjectRecord(i)
    \/ \E i \in 1..Len(txs) : DeleteProjectKeys(i)
    \/ \E i \in 1..Len(txs) : DeleteProjectContent(i)
    \/ \E i \in 1..Len(txs) : DeleteProjectComplete(i)
    \/ \E i \in 1..Len(txs) : \E newText \in EditInputs : SaveContentEditGot(i, newText)
    \/ \E i \in 1..Len(txs) : \E newFileContent \in FileEditInputs : SaveContentFileEditGot(i, newFileContent)
    \/ \E i \in 1..Len(txs) : ContentEditSaved(i)
    \/ \E i \in 1..Len(txs) : DeleteContentDone(i)
    \/ \E i \in 1..Len(txs) : CountDone(i)
    \/ \E i \in 1..Len(txs) : RecentProjectsRead(i)
    \/ \E i \in 1..Len(txs) : RecentContentRead(i)
    \/ \E i \in 1..Len(txs) : TxComplete(i)
    \/ \E i \in 1..Len(txs) : TxAbort(i)
    \/ \E i \in 1..Len(txs) : RequestError(i)
    \/ Tick

Spec == Init /\ [][Next]_vars

\* The storage engine's own steps: commit, failed commit, failed request.
Storage ==
    \/ \E i \in 1..Len(txs) : TxComplete(i)
    \/ \E i \in 1..Len(txs) : TxAbort(i)
    \/ \E i \in 1..Len(txs) : RequestError(i)

\* Record creation: createProject and addContent (with file selection and the
\* views), over a storage that may fail.
NextCreate ==
    \/ \E name \in NameInputs : CreateProject(name)
    \/ \E text \in TextInputs : AddContent(text)
    \/ \E id \in CardIds : OpenProject(id)
    \/ ShowMainView
    \/ \E file \in FileInputs : HandleFileSelect(file)
    \/ \E i \in 1..Len(txs) : GetCounterSuccess(i)
    \/ \E i \in 1..Len(txs) : PutCounterSuccess(i)
    \/ \E i \in 1..Len(txs) : CreateProjectSaved(i)
    \/ \E i \in 1..Len(txs) : AddContentSaved(i)
    \/ \E i \in 1..Len(txs) : OpenProjectGot(i)
    \/ Storage

SpecCreate == Init /\ [][NextCreate]_vars

\* Cascade delete, with the operations that read or write the same stores
\* while it runs: openProject, editProject, addContent, saveContentEdit,
\* deleteContent, the statistics.
NextCascade ==
    \/ \E id \in CardIds : DeleteProject(id)
    \/ \E id \in CardIds : OpenProject(id)
    \/ \E id \in CardIds : EditProject(id)
    \/ \E id \in ItemIds : SaveContentEdit(id)
    \/ \E i \in 1..Len(txs) : \E newName \in NameInputs : EditProjectGot(i, newName)
    \/ \E i \in 1..Len(txs) : EditProjectSaved(i)
    \/ \E i \in 1..Len(txs) : \E newText \in EditInputs : SaveContentEditGot(i, newText)
    \/ \E i \in 1..Len(txs) : ContentEditSaved(i)
    \/ \E text \in TextInputs : AddContent(text)
    \/ \E id \in ItemIds : DeleteContent(id)
    \/ UpdateStatistics
    \/ \E i \in 1..Len(txs) : DeleteProjectRecord(i)
    \/ \E i \in 1..Len(txs) : DeleteProjectKeys(i)
    \/ \E i \in 1..Len(txs) : DeleteProjectContent(i)
    \/ \E i \in 1..Len(txs) : DeleteProjectComplete(i)
    \/ \E i \in 1..Len(txs) : OpenProjectGot(i)
    \/ \E i \in 1..Len(txs) : GetCounterSuccess(i)
    \/ \E i \in 1..Len(txs) : PutCounterSuccess(i)
    \/ \E i \in 1..Len(txs) : AddContentSaved(i)
    \/ \E i \in 1..Len(txs) : DeleteContentDone(i)
    \/ \E i \in 1..Len(txs) : CountDone(i)
    \/ \E i \in 1..Len(txs) : RecentProjectsRead(i)
    \/ \E i \in 1..Len(txs) : RecentContentRead(i)
    \/ Storage

SpecCascade == Init /\ [][NextCascade]_vars

\* The events the browser delivers without the user: the success of a request
\* of a transaction that can run, and the completion of a transaction.
Delivered ==
    \/ \E i \in 1..Len(txs) : \E newName \in NameInputs : EditProjectGot(i, newName)
    \/ \E i \in 1..Len(txs) : EditProjectSaved(i)
    \/ \E i \in 1..Len(txs) : \E newText \in EditInputs : SaveContentEditGot(i, newText)
    \/ \E i \in 1..Len(txs) : ContentEditSaved(i)
    \/ \E i \in 1..Len(txs) : DeleteProjectRecord(i)
    \/ \E i \in 1..Len(txs) : DeleteProjectKeys(i)
    \/ \E i \in 1..Len(txs) : DeleteProjectContent(i)
    \/ \E i \in 1..Len(txs) : DeleteProjectComplete(i)
    \/ \E i \in 1..Len(txs) : OpenProjectGot(i)
    \/ \E i \in 1..Len(txs) : GetCounterSuccess(i)
    \/ \E i \in 1..Len(txs) : PutCounterSuccess(i)
    \/ \E i \in 1..Len(txs) : AddContentSaved(i)
    \/ \E i \in 1..Len(txs) : DeleteContentDone(i)
    \/ \E i \in 1..Len(txs) : CountDone(i)
    \/ \E i \in 1..Len(txs) : RecentProjectsRead(i)
    \/ \E i \in 1..Len(txs) : RecentContentRead(i)
    \/ \E i \in 1..Len(txs) : TxComplete(i)

\* SpecCascade on an event loop that does not stop: an event that is due is
\* delivered.  The user need not act and the storage need not fail.
LiveCascade == Init /\ [][NextCascade]_vars /\ WF_vars(Delivered)

\* The writers of content records: addContent, saveContentEdit,
\* saveContentFileEdit and deleteContent.
NextContent ==
    \/ \E text \in TextInputs : AddContent(text)
    \/ \E id \in ItemIds : SaveContentEdit(id)
    \/ \E id \in ItemIds : SaveContentFileEdit(id)
    \/ \E id \in ItemIds : DeleteContent(id)
    \/ \E id \in CardIds : OpenProject(id)
    \/ \E file \in FileInputs : HandleFileSelect(file)
    \/ \E i \in 1..Len(txs) : GetCounterSuccess(i)
    \/ \E i \in 1..Len(txs) : PutCounterSuccess(i)
    \/ \E i \in 1..Len(txs) : AddContentSaved(i)
    \/ \E i \in 1..Len(txs) : OpenProjectGot(i)
    \/ \E i \in 1..Len(txs) : \E newText \in EditInputs : SaveContentEditGot(i, newText)
    \/ \E i \in 1..Len(txs) : \E newFileContent \in FileEditInputs : SaveContentFileEditGot(i, newFileContent)
    \/ \E i \in 1..Len(txs) : ContentEditSaved(i)
    \/ \E i \in 1..Len(txs) : DeleteContentDone(i)
    \/ Storage

SpecContent == Init /\ [][NextContent]_vars

\* The file preview of the content form and the file editors of the content
\* items, with the page being left.
NextFile ==
    \/ \E file \in PreviewInputs : HandleFileSelect(file)
    \/ HandleNoFile
    \/ ToggleFileEdit
    \/ \E newContent \in FileEditInputs : SaveFileEdit(newContent)
    \/ ResetFileContent
    \/ CancelFileEdit
    \/ \E id \in ItemIds : ToggleContentFileEdit(id)
    \/ \E id \in ItemIds : CancelContentFileEdit(id)
    \/ \E id \in ItemIds : SaveContentFileEdit(id)
    \/ \E i \in 1..Len(txs) : \E newFileContent \in FileEditInputs : SaveContentFileEditGot(i, newFileContent)
    \/ \E i \in 1..Len(txs) : ContentEditSaved(i)
    \/ \E id \in ItemIds : DeleteContent(id)
    \/ \E i \in 1..Len(txs) : DeleteContentDone(i)
    \/ ShowMainView
    \/ Beforeunload
    \/ Storage

SpecFile == Init /\ [][NextFile]_vars

\* The edits of content records, with the deletes that can overtake them, while
\* time passes.
NextEdit ==
    \/ \E id \in ItemIds : SaveContentEdit(id)
    \/ \E id \in ItemIds : SaveContentFileEdit(id)
    \/ \E id \in ItemIds : DeleteContent(id)
    \/ \E id \in CardIds : DeleteProject(id)
    \/ \E i \in 1..Len(txs) : \E newText \in EditInputs : SaveContentEditGot(i, newText)
    \/ \E i \in 1..Len(txs) : \E newFileContent \in FileEditInputs : SaveContentFileEditGot(i, newFileContent)
    \/ \E i \in 1..Len(txs) : ContentEditSaved(i)
    \/ \E i \in 1..Len(txs) : DeleteContentDone(i)
    \/ \E i \in 1..Len(txs) : DeleteProjectRecord(i)
    \/ \E i \in 1..Len(txs) : DeleteProjectKeys(i)
    \/ \E i \in 1..Len(txs) : DeleteProjectContent(i)
    \/ \E i \in 1..Len(txs) : DeleteProjectComplete(i)
    \/ Storage
    \/ Tick

SpecEdit == Init /\ [][NextEdit]_vars

\* The writers of project records: createProject, editProject and
\* deleteProject, while time passes.
NextProject ==
    \/ \E name \in NameInputs : CreateProject(name)
    \/ \E id \in CardIds : EditProject(id)
    \/ \E id \in CardIds : DeleteProject(id)
    \/ \E i \in 1..Len(txs) : GetCounterSuccess(i)
    \/ \E i \in 1..Len(txs) : PutCounterSuccess(i)
    \/ \E i \in 1..Len(txs) : CreateProjectSaved(i)
    \/ \E i \in 1..Len(txs) : \E newName \in NameInputs : EditProjectGot(i, newName)
    \/ \E i \in 1..Len(txs) : EditProjectSaved(i)
    \/ \E i \in 1..Len(txs) : DeleteProjectRecord(i)
    \/ \E i \in 1..Len(txs) : DeleteProjectKeys(i)
    \/ \E i \in 1..Len(txs) : DeleteProjectContent(i)
    \/ \E i \in 1..Len(txs) : DeleteProjectComplete(i)
    \/ Storage
    \/ Tick

SpecProject == Init /\ [][NextProject]_vars

\* Record creation over page reloads: createProject and addContent, over a
\* storage that may fail, with the page reloaded at any moment.
NextRestart ==
    \/ \E name \in NameInputs : CreateProject(name)
    \/ \E text \in TextInputs : AddContent(text)
    \/ \E id \in CardIds : OpenProject(id)
    \/ \E i \in 1..Len(txs) : GetCounterSuccess(i)
    \/ \E i \in 1..Len(txs) : PutCounterSuccess(i)
    \/ \E i \in 1..Len(txs) : CreateProjectSaved(i)
    \/ \E i \in 1..Len(txs) : AddContentSaved(i)
    \/ \E i \in 1..Len(txs) : OpenProjectGot(i)
    \/ Storage
    \/ Restart

SpecRestart == Init /\ [][NextRestart]_vars

\* The statistics, read while projects are created and deleted and time passes.
NextStats ==
    \/ UpdateStatistics
    \/ \E name \in NameInputs : CreateProject(name)
    \/ \E id \in CardIds : DeleteProject(id)
    \/ \E i \in 1..Len(txs) : CountDone(i)
    \/ \E i \in 1..Len(txs) : RecentProjectsRead(i)
    \/ \E i \in 1..Len(txs) : RecentContentRead(i)
    \/ \E i \in 1..Len(txs) : GetCounterSuccess(i)
    \/ \E i \in 1..Len(txs) : PutCounterSuccess(i)
    \/ \E i \in 1..Len(txs) : CreateProjectSaved(i)
    \/ \E i \in 1..Len(txs) : DeleteProjectRecord(i)
    \/ \E i \in 1..Len(txs) : DeleteProjectKeys(i)
    \/ \E i \in 1..Len(txs) : DeleteProjectContent(i)
    \/ \E i \in 1..Len(txs) : DeleteProjectComplete(i)
    \/ Storage
    \/ Tick

SpecStats == InitStats /\ [][NextStats]_vars

\* ------------------------------------------------------------------ claims
\* C1, as stated: no two getNextId calls on one counter return the same value.
C1IdsNeverRepeat ==
    \A name \in DOMAIN issued : \A a, b \in 1..Len(issued[name]) :
        a # b => issued[name][a] # issued[name][b]

\* C2: as long as no getNextId("contentId") has been rolled back after it
\* resolved, the values it has returned are start, start + 1, ... in the order
\* of the calls' transactions, and the counter holds start plus their number.
C2ContiguousIds ==
    ~undone.contentId =>
        /\ counters.contentId = start.contentId + Len(issued.contentId)
        /\ \A k \in 1..Len(issued.contentId) :
               issued.contentId[k] = start.contentId + k - 1

\* Two getNextId("contentId") calls were pending together, both have resolved
\* and committed, and nothing has failed.
C2Witness ==
    /\ overlap.contentId >= 2
    /\ Len(issued.contentId) = overlap.contentId
    /\ \A i \in 1..Len(txs) : txs[i].op # "getNextId"
    /\ failures = 0
    /\ counters.contentId = start.contentId + overlap.contentId

\* C3: when deleteProject(id) completes, the projects store has no record id
\* and the content store has no record whose projectId is id.
C3CascadeComplete ==
    [][\A i \in 1..Len(txs) : DeleteProjectComplete(i) =>
          /\ Get(projectStore', txs[i].key) = NoRec
          /\ ByProject(contentStore', txs[i].key) = {}]_vars

\* deleteProject(1) has completed on the old database, where project 1 owned
\* two content records.
C3Witness ==
    /\ last.op = "deleteProject" /\ last.result = "ok" /\ last.pid = 1
    /\ start = OldCounters
    /\ Get(projectStore, 1) = NoRec
    /\ ByProject(contentStore, 1) = {}

OtherProjects(store, id) == { p \in store : p.id # id }

OtherContent(store, id) == { c \in store : c.projectId # id }

DeleteProjectStep(i) ==
    \/ DeleteProjectRecord(i)
    \/ DeleteProjectKeys(i)
    \/ DeleteProjectContent(i)
    \/ DeleteProjectComplete(i)

\* C4: no step of deleteProject(id) changes a project with another id, a
\* content record of another project, or a counter; and when it completes,
\* those projects and content records are as they were when it began.
C4DeleteFrame ==
    [][\A i \in 1..Len(txs) : DeleteProjectStep(i) =>
          /\ OtherProjects(projectStore', txs[i].key) = OtherProjects(projectStore, txs[i].key)
          /\ OtherContent(contentStore', txs[i].key) = OtherContent(contentStore, txs[i].key)
          /\ counters' = counters
          /\ DeleteProjectComplete(i) =>
                /\ OtherProjects(projectStore', txs[i].key) = OtherProjects(txs[i].undo.p, txs[i].key)
                /\ OtherContent(contentStore', txs[i].key) = OtherContent(txs[i].undo.c, txs[i].key)]_vars

\* deleteProject(1) has completed and project 2, its content and the counters
\* are what they were at start-up.
C4Witness ==
    /\ last.op = "deleteProject" /\ last.result = "ok" /\ last.pid = 1
    /\ OtherProjects(projectStore, 1) = OtherProjects(OldProjects, 1)
    /\ OtherContent(contentStore, 1) = OtherContent(OldContent, 1)
    /\ counters = OldCounters

\* C5, as stated: a deleteProject call that has not yet reported to its caller
\* still has its transaction (whose end, complete or failed, reports).
C5DeleteReports ==
    \A t \in 1..Len(tasks) :
        tasks[t].op = "deleteProject" /\ tasks[t].pc = "awaitDelete" =>
            \E i \in 1..Len(txs) : txs[i].task = t

\* The object stores the requests of a DatabaseManager method read or write.
Touches(op) ==
    CASE op = "getNextId" -> { "counters" }
      [] op \in { "saveProject", "getProject" } -> { "projects" }
      [] op \in { "deleteProject", "getRecentProjectsCount" } -> { "projects", "content" }
      [] OTHER -> { "content" }

\* Transaction i has a request that the database may serve now.
Served(i) == CanRun(i) /\ txs[i].pc # "commit"

\* C6: no request is served from a store that a transaction in progress (begun,
\* neither committed nor rolled back) has written or will write: a read sees
\* the stores as they are before that transaction or after it.
C6ReadsIsolated ==
    \A i, j \in 1..Len(txs) :
        i # j /\ Served(i) /\ txs[j].began =>
            Touches(txs[i].op) \cap Touches(txs[j].op) = {}

\* A read of the content store waits while a cascade is half applied: the
\* project is deleted, one of its two content records is not yet.
C6Witness ==
    \E i, j \in 1..Len(txs) :
        /\ txs[i].op = "deleteProject" /\ txs[i].pc = "delContent"
        /\ Cardinality(txs[i].todo) = 1
        /\ Cardinality(ByProject(contentStore, txs[i].key)) = 1
        /\ txs[j].mode = "readonly" /\ "content" \in Touches(txs[j].op)
        /\ ~CanRun(j)

\* C7, as stated: once no transaction is in progress, every content record's
\* projectId is the id of a project in the projects store.
C7NoOrphans ==
    (\A i \in 1..Len(txs) : ~txs[i].began) =>
        \A c \in contentStore : Get(projectStore, c.projectId) # NoRec

\* C8: every record of the content store has non-empty text or a file.
C8TextOrFile == \A c \in contentStore : c.text # Blank \/ c.file.present

\* An edit has blanked the text of a record that has a file, and the record
\* is in the store.
C8Witness ==
    /\ last.op = "saveContentEdit" /\ last.result = "ok" /\ Trim(last.text) = Blank
    /\ \E c \in contentStore : c.updatedAt # NoTime /\ c.text = Blank /\ c.file.present

C11NameNotBlank == \A p \in projectStore : Trim(p.name) # Blank

\* Project 2 of the old database has been renamed from "b" to the trimmed
\* answer "a".
C11Witness ==
    /\ last.op = "editProject" /\ last.result = "ok" /\ last.pid = 2
    /\ Get(projectStore, 2) # NoRec
    /\ Get(projectStore, 2).name = <<"a">>

\* C12, as stated: once createProject has ended with its project saved and no
\* transaction is in progress, the projects store holds the record with the
\* id it was given and the trimmed name.
C12RoundTrip ==
    (/\ last.op = "createProject" /\ last.result = "ok"
     /\ \A i \in 1..Len(txs) : ~txs[i].began) =>
        /\ Get(projectStore, last.nid) # NoRec
        /\ Get(projectStore, last.nid).name = Trim(last.text)

C14RenameFrame ==
    [][\A i \in 1..Len(txs) : EditProjectSaved(i) =>
          LET key == txs[i].key
              old == Get(projectStore, key)
              new == Get(projectStore', key)
          IN  /\ OtherProjects(projectStore', key) = OtherProjects(projectStore, key)
              /\ contentStore' = contentStore
              /\ counters' = counters
              /\ new # NoRec /\ new.id = key
              /\ new.name = Trim(tasks[txs[i].task].text)
              /\ (old # NoRec /\ ~undone.projectId) =>
                     new = [old EXCEPT !.name = new.name]]_vars

\* Project 2 of the old database has been renamed, everything else is as it
\* was at start-up.
C14Witness ==
    /\ last.op = "editProject" /\ last.result = "ok" /\ last.pid = 2
    /\ projectStore = { Project(1, <<"a">>, 0), Project(2, <<"a">>, StartTime) }
    /\ contentStore = OldContent
    /\ counters = OldCounters

\* C15: a content record enters the store stamped with updatedAt exactly when
\* it is written by saveContentEdit or saveContentFileEdit; addContent writes
\* it without updatedAt, and a rollback puts back a state the store had before.
C15UpdatedAt ==
    [][\A c \in contentStore' \ contentStore :
          \/ \E i \in 1..Len(txs) :
                /\ ContentEditSaved(i)
                /\ c.id = txs[i].rec.id
                /\ c.updatedAt # NoTime
          \/ \E i \in 1..Len(txs) :
                /\ AddContentSaved(i)
                /\ c.id = tasks[txs[i].task].nid
                /\ c.updatedAt = NoTime
          \/ \E i \in 1..Len(txs) :
                /\ TxAbort(i) \/ RequestError(i)
                /\ c \in txs[i].undo.c]_vars

\* A file edit of record 2 has been saved and committed, and a record added
\* meanwhile is there unstamped, like the records nobody edited.
C15Witness ==
    /\ last.op = "saveContentFileEdit" /\ last.result = "ok" /\ last.cid = 2
    /\ txs = <<>>
    /\ Get(contentStore, 2) # NoRec
    /\ Get(contentStore, 2).updatedAt # NoTime
    /\ \E c \in contentStore : c.id >= 4 /\ c.updatedAt = NoTime
    /\ \A c \in contentStore : c.id \in {1, 3} => c.updatedAt = NoTime

\* C16: deleteContent(id) served when no content record has that id resolves
\* without error and changes no store; every step of deleteProject(id) served
\* when no project has that id and no content belongs to it changes no store,
\* and the call resolves without error.
C16DeleteIdempotent ==
    [][\A i \in 1..Len(txs) :
          /\ (/\ DeleteContentDone(i)
              /\ \A c \in contentStore : c.id # txs[i].key) =>
                 /\ UNCHANGED dbVars
                 /\ last'.op = "deleteContent" /\ last'.result = "ok"
          /\ (/\ DeleteProjectStep(i)
              /\ \A p \in projectStore : p.id # txs[i].key
              /\ \A c \in contentStore : c.projectId # txs[i].key) =>
                 /\ UNCHANGED dbVars
                 /\ DeleteProjectComplete(i) =>
                        last'.op = "deleteProject" /\ last'.result = "ok"]_vars

\* The same content item was deleted twice: the first delete has committed,
\* the second found nothing under the key and has resolved.
C16Witness ==
    /\ last.op = "deleteContent" /\ last.result = "ok"
    /\ Len(tasks) = MaxOps /\ \A t \in 1..Len(tasks) : tasks[t] = Idle
    /\ \E i \in 1..Len(txs) :
          /\ txs[i].op = "deleteContent" /\ txs[i].pc = "commit"
          /\ \A c \in txs[i].undo.c : c.id # txs[i].key
    /\ Cardinality(contentStore) = Cardinality(OldContent) - 1

C18TotalIdeasCount ==
    [][\A i \in 1..Len(txs) : CountDone(i) =>
          LET obs == tasks'[txs[i].task].obs IN
          /\ obs # <<>>
          /\ obs[Len(obs)] = Cardinality({ c.id : c \in contentStore })
          /\ \A j \in 1..Len(txs) :
                txs[j].began /\ "content" \in txs[j].scope => txs[j].mode = "readonly"]_vars

\* A record was added to the three of the old database and the statistics
\* read afterwards counted four.
C18Witness ==
    /\ last.op = "updateStatistics" /\ last.result = "ok"
    /\ last.obs # <<>>
    /\ last.obs[1] = Cardinality(OldContent) + 1
    /\ Cardinality(contentStore) = Cardinality(OldContent) + 1

\* C19, as stated: the second figure the statistics read, the value
\* getRecentProjectsCount resolved with, is the number of projects in the
\* store that were created after the start of the window or own a content
\* record created after it.
C19RecentProjectsCount ==
    (/\ last.op = "updateStatistics" /\ last.result = "ok"
     /\ Len(last.obs) = 2
     /\ \A i \in 1..Len(txs) : ~txs[i].began) =>
        last.obs[2] = Cardinality(
            { p \in projectStore :
                \/ p.createdAt > now - DefaultDays
                \/ \E c \in contentStore :
                      c.projectId = p.id /\ c.createdAt > now - DefaultDays })

\* C20, as stated: every operation that is suspended at a storage call is
\* eventually resumed, by the call's promise being resolved or rejected, until
\* it is over (an operation makes its storage calls one after the other, so it
\* is over exactly if each of them has settled).
C20CallsSettle ==
    \A t \in 1..MaxOps :
        (t <= Len(tasks) /\ tasks[t].pc # "done") ~> (t <= Len(tasks) /\ tasks[t].pc = "done")

\* C21, as stated (and with no storage failure at all): the ids getNextId has
\* issued for a counter, over all sessions, increase strictly: each id issued
\* after a reload is greater than each id issued before it.
C21IdsAcrossRestart ==
    failures = 0 =>
        \A name \in DOMAIN issued : \A a, b \in 1..Len(issued[name]) :
            a < b => issued[name][a] < issued[name][b]

\* C22: when a request of getNextId fails, the operation that called it is
\* over, reported as failed, with no transaction of its own left; the
\* projects store, the content store and the in-memory list are as before.
C22NoIdNoRecord ==
    [][\A i \in 1..Len(txs) :
          (RequestError(i) /\ txs[i].op = "getNextId") =>
              /\ projectStore' = projectStore
              /\ contentStore' = contentStore
              /\ projects' = projects
              /\ tasks[txs[i].task].op \in { "createProject", "addContent" }
              /\ tasks'[txs[i].task] = Idle
              /\ \A j \in 1..Len(txs') : txs'[j].task # txs[i].task
              /\ last'.op = tasks[txs[i].task].op /\ last'.result = "failed"]_vars

\* createProject on the old database ended in its catch block without an id:
\* stores, counters and list are those of start-up.
C22Witness ==
    /\ last.op = "createProject" /\ last.result = "failed" /\ last.nid = NoId
    /\ txs = <<>>
    /\ projectStore = OldProjects /\ contentStore = OldContent
    /\ counters = OldCounters
    /\ projects = InKeyOrder(OldProjects)

\* C23: when getNextId(name) resolves, the value it returns is the value the
\* counter held, the counter now holds that value plus one, and the other
\* counter, the projects store and the content store are unchanged; the
\* counter's row was not touched between the call's read and its write.
C23GetNextId ==
    [][\A i \in 1..Len(txs) : PutCounterSuccess(i) =>
          LET name == txs[i].key
              v == counters[name]
          IN  /\ issued'[name] = Append(issued[name], v)
              /\ tasks'[txs[i].task].nid = v \/ last'.nid = v
              /\ counters' = [counters EXCEPT ![name] = v + 1]
              /\ projectStore' = projectStore
              /\ contentStore' = contentStore
              /\ txs[i].undo.k = counters]_vars

\* One getNextId("contentId") on the old database has resolved with 4 and
\* committed: the counter holds 5, everything else is as at start-up.
C23Witness ==
    /\ issued = [projectId |-> <<>>, contentId |-> << OldCounters.contentId >>]
    /\ counters = [OldCounters EXCEPT !.contentId = OldCounters.contentId + 1]
    /\ projectStore = OldProjects /\ contentStore = OldContent
    /\ \A i \in 1..Len(txs) : txs[i].op # "getNextId"
    /\ \E t \in 1..Len(tasks) : tasks[t].nid = OldCounters.contentId
    /\ failures = 0

\* The value of a counter that is committed: the value in the store, or, while
\* a transaction is writing the counters store, the value it found there.
Committed(name) ==
    IF \E i \in 1..Len(txs) : txs[i].began /\ "counters" \in txs[i].scope
    THEN txs[CHOOSE i \in 1..Len(txs) :
                txs[i].began /\ "counters" \in txs[i].scope].undo.k[name]
    ELSE counters[name]

\* C24: the committed value of each counter is at least 1 and at least what it
\* was at start-up, no step decreases it, and it changes only when a getNextId
\* transaction on that counter commits, and then by exactly one.
C24CounterMonotone ==
    /\ [](\A name \in DOMAIN counters :
            Committed(name) >= 1 /\ Committed(name) >= start[name])
    /\ [][\A name \in DOMAIN counters :
            /\ Committed(name)' >= Committed(name)
            /\ Committed(name)' # Committed(name) =>
                  /\ Committed(name)' = Committed(name) + 1
                  /\ \E i \in 1..Len(txs) :
                        /\ txs[i].op = "getNextId" /\ txs[i].key = name
                        /\ txs[i].pc = "commit"
                        /\ TxComplete(i) \/ Restart
            /\ \A i \in 1..Len(txs) :
                  (TxComplete(i) /\ txs[i].op = "getNextId" /\ txs[i].key = name) =>
                      Committed(name)' = Committed(name) + 1]_vars

\* Two getNextId("projectId") calls resolved; the commit of one failed, the
\* other committed; the page was reloaded: the counter is one above start-up.
C24Witness ==
    /\ failures = 1 /\ undone.projectId
    /\ Len(issued.projectId) = 2
    /\ txs = <<>> /\ last.op = "init"
    /\ counters.projectId = start.projectId + 1
    /\ counters.contentId = start.contentId

\* C25, as stated: once its transactions are over, what a call has
\* acknowledged is in the store: the record addContent saved is there, the
\* record deleteContent deleted is not, and every id getNextId has returned is
\* below the counter.
C25AcknowledgedIsCommitted ==
    (\A i \in 1..Len(txs) : ~txs[i].began) =>
        /\ (last.op = "addContent" /\ last.result = "ok") =>
               Get(contentStore, last.nid) # NoRec
        /\ (last.op = "deleteContent" /\ last.result = "ok") =>
               Get(contentStore, last.cid) = NoRec
        /\ \A k \in 1..Len(issued.contentId) :
               issued.contentId[k] < counters.contentId

\* C26, as stated (and with no storage failure at all): from the moment
\* deleteProject(id) has completed the projects store never holds a record id
\* again, and from the moment deleteContent(id) has resolved the content store
\* never holds a record id again.
C26DeletionPermanent ==
    \A id \in 1..(OldCounters.contentId + MaxOps) :
        /\ []((last.op = "deleteProject" /\ last.result = "ok" /\ last.pid = id) =>
                [](failures = 0 => Get(projectStore, id) = NoRec))
        /\ []((last.op = "deleteContent" /\ last.result = "ok" /\ last.cid = id) =>
                [](failures = 0 => Get(contentStore, id) = NoRec))

\* C27, as stated (and with no storage failure at all): whenever no operation
\* is in flight, the in-memory list holds each project once and its ids and
\* names are those of the records in the projects store.
C27ListMatchesStore ==
    (/\ \A t \in 1..Len(tasks) : tasks[t].pc = "done"
     /\ failures = 0) =>
        /\ Len(projects) = Cardinality(projectStore)
        /\ { << projects[k].id, projects[k].name >> : k \in 1..Len(projects) }
               = { << p.id, p.name >> : p \in projectStore }

\* C28, as stated: every project id is positive and below the projectId
\* counter, every content id is positive and below the contentId counter.
C28IdsBelowCounter ==
    /\ \A p \in projectStore : p.id >= 1 /\ p.id < counters.projectId
    /\ \A c \in contentStore : c.id >= 1 /\ c.id < counters.contentId

\* C29, as stated: when the write of createProject or addContent is about to
\* run, the store it writes to has no record with the new record's id.
C29CreationNeverOverwrites ==
    \A i \in 1..Len(txs) :
        (/\ txs[i].op \in { "saveProject", "saveContent" } /\ txs[i].pc = "put"
         /\ tasks[txs[i].task].op \in { "createProject", "addContent" }
         /\ CanRun(i)) =>
            /\ txs[i].op = "saveProject" => Get(projectStore, txs[i].rec.id) = NoRec
            /\ txs[i].op = "saveContent" => Get(contentStore, txs[i].rec.id) = NoRec

\* C30, as stated (and with no storage failure at all): a file edit that
\* writes a record next after a text edit of that record has succeeded leaves
\* the record with that text, and a text edit that writes next after a file
\* edit has succeeded leaves the record with that file content.
C30NoLostUpdate ==
    [][\A i \in 1..Len(txs) :
          (/\ ContentEditSaved(i)
           /\ failures = 0
           /\ last.result = "ok" /\ last.cid = txs[i].rec.id) =>
              LET op == tasks[txs[i].task].op
                  new == Get(contentStore', txs[i].rec.id)
              IN  /\ (op = "saveContentFileEdit" /\ last.op = "saveContentEdit") =>
                         new.text = Trim(last.text)
                  /\ (op = "saveContentEdit" /\ last.op = "saveContentFileEdit") =>
                         new.file.content = last.text]_vars

\* C31, as stated: the record addContent is about to save, or has saved,
\* belongs to the project that was open when addContent was invoked.
C31ProjectAtInvocation ==
    /\ \A i \in 1..Len(txs) :
          (txs[i].op = "saveContent" /\ tasks[txs[i].task].op = "addContent") =>
              txs[i].rec.projectId = tasks[txs[i].task].pid
    /\ (/\ last.op = "addContent" /\ last.result = "ok"
        /\ Get(contentStore, last.nid) # NoRec) =>
           Get(contentStore, last.nid).projectId = last.pid

\* C32, as stated (and with no storage failure at all): whenever no operation
\* is in flight and a project is open, that project is in the projects store.
C32OpenProjectPersisted ==
    (/\ \A t \in 1..Len(tasks) : tasks[t].pc = "done"
     /\ failures = 0
     /\ currentProject # NoId) =>
        \E p \in projectStore : p.id = currentProject

\* C33, as stated: the second figure the statistics read, the value
\* getRecentProjectsCount resolved with, is at most the number of projects in
\* the store.
C33RecentAtMostProjects ==
    (/\ last.op = "updateStatistics" /\ last.result = "ok"
     /\ Len(last.obs) = 2
     /\ \A i \in 1..Len(txs) : ~txs[i].began) =>
        last.obs[2] <= Cardinality(projectStore)

\* The record with id cid among those of project pid, as the store holds it.
Stored(pid, cid) == { c \in contentStore : c.id = cid /\ c.projectId = pid }

\* The write an edit has queued in this step, if it has queued one.
Queued(i) ==
    IF /\ Len(txs') = Len(txs)
       /\ txs'[Len(txs')].op = "saveContent"
       /\ txs'[Len(txs')].task = txs[i].task
    THEN { txs'[Len(txs')].rec }
    ELSE {}

\* C34: the record an edit queues for writing has the id, projectId and
\* createdAt of the record the edit has read, and its write puts that record
\* and changes no other content record, no project and no counter.
C34EditFrame ==
    [][\A i \in 1..Len(txs) :
          /\ (/\ txs[i].op = "getProjectContent"
              /\ \/ \E newText \in EditInputs : SaveContentEditGot(i, newText)
                 \/ \E newFileContent \in FileEditInputs :
                        SaveContentFileEditGot(i, newFileContent)) =>
                 /\ UNCHANGED dbVars
                 /\ \A rec \in Queued(i) :
                       \E old \in Stored(txs[i].key, tasks[txs[i].task].cid) :
                           /\ rec.id = old.id
                           /\ rec.projectId = old.projectId
                           /\ rec.createdAt = old.createdAt
          /\ (txs[i].op = "saveContent" /\ ContentEditSaved(i)) =>
                 /\ { c \in contentStore' : c.id # txs[i].rec.id }
                        = { c \in contentStore : c.id # txs[i].rec.id }
                 /\ { c \in contentStore' : c.id = txs[i].rec.id } = { txs[i].rec }
                 /\ projectStore' = projectStore
                 /\ counters' = counters]_vars

\* The text of content 1 has been edited: the record differs from the old one
\* in text and updatedAt only, everything else is as at start-up.
C34Witness ==
    /\ last.op = "saveContentEdit" /\ last.result = "ok" /\ last.cid = 1
    /\ \E c \in contentStore :
          /\ c = [Content(1, 1, <<"u">>, NoFile, 0) EXCEPT !.updatedAt = c.updatedAt]
          /\ c.updatedAt # NoTime
    /\ { c \in contentStore : c.id # 1 } = { c \in OldContent : c.id # 1 }
    /\ projectStore = OldProjects
    /\ counters = OldCounters

\* An edit is in progress: the preview of the form is in edit mode, or the
\* file editor of some content item is open.
EditInProgress ==
    \/ fileEditMode
    \/ \E k \in DOMAIN editingFileInContent : editingFileInContent[k]

\* C35: whenever beforeunload fires, the warning is raised only if an edit was
\* in progress when it fired; when every file editor had been saved,
\* cancelled or toggled off and the preview was not in edit mode, the page is
\* left without a warning.
C35WarnsOnlyWhileEditing ==
    [][Beforeunload => (last'.result = "warn" => EditInProgress)]_vars

\* beforeunload has fired without a warning on a page where the file editor
\* of one item had been opened and closed again: its entry was still in the
\* map, with the value false.
C35Witness ==
    /\ last.op = "beforeunload"
    /\ last.result = "quiet"
    /\ last.obs = << 1, 0, 0 >>

\* C36: fileEditMode is true only while a file is attached to the form and
\* that file is not an image.
C36EditModeNeedsTextFile ==
    fileEditMode => (currentFileContent.present /\ ~currentFileContent.isImage)

\* The preview is in edit mode again on a file whose content an earlier edit
\* has changed.
C36Witness ==
    /\ fileEditMode
    /\ currentFileContent.present
    /\ currentFileContent # originalFileContent
====
